---- MODULE Spec2Model ----
(***************************************************************************)
(* Model of move_matching_files.py: a command-line tool that walks a       *)
(* target directory, selects the files whose base name contains a keyword  *)
(* (case-insensitively) and moves them into target/keyword, choosing a     *)
(* non-colliding destination name for each.                                *)
(*                                                                         *)
(* A file name is a sequence of one-character strings, a path is a         *)
(* sequence of names counted from the file-system root "/".  The file      *)
(* system is a set of directories and a map from file paths to contents;   *)
(* the content of a file is the path it had in the initial state, so that  *)
(* "the same file" can be recognised after it has moved.  Symbolic links   *)
(* and case-insensitive file systems are not modelled.                     *)
(***************************************************************************)
EXTENDS Integers, Sequences, FiniteSets, TLC

VARIABLES
    files,       \* file system: [path -> content] for every regular file
    dirs,        \* file system: the set of directory paths (the root is <<>>)
    target,      \* argv: the target argument, a path as typed
    keyword,     \* argv: the keyword argument, a string as typed
    dry_run,     \* argv: the --dry-run flag of the current invocation
    pathlib314,  \* TRUE when the interpreter's pathlib splits suffixes as 3.14 does
    pc,          \* "idle" before main, "moving" inside move_files, "done" after exit
    status,      \* how the current invocation ended (or "none")
    base_dir,    \* main's base_dir
    dest_dir,    \* main's dest_dir (NoPath until it is computed)
    matches,     \* main's matches / move_files' paths
    idx,         \* move_files: index of the next element of paths
    moves,       \* move_files' moves: sequence of <<src, dest>>
    files0,      \* history: files when the current invocation started
    dirs0,       \* history: dirs when the current invocation started
    runs,        \* history: number of invocations started
    prev         \* history: [status, dry_run] of the previous invocation

vars == <<files, dirs, target, keyword, dry_run, pathlib314, pc, status,
          base_dir, dest_dir, matches, idx, moves, files0, dirs0, runs, prev>>

----------------------------------------------------------------------------
(* Bounds *)

MaxFiles == 3      \* regular files in the initial file system
MaxRuns == 2       \* invocations of main in one behaviour
MaxEntries == 2    \* entries of the destination directory when move_files is called alone
MaxPaths == 2      \* length of the paths argument when move_files is called alone

----------------------------------------------------------------------------
(* Strings *)

Digits == <<"0", "1", "2", "3", "4", "5", "6", "7", "8", "9">>

RECURSIVE Str(_)
\* f"{counter}": the decimal digits of a natural number
Str(n) == IF n < 10 THEN <<Digits[n + 1]>>
          ELSE Str(n \div 10) \o <<Digits[(n % 10) + 1]>>

\* str.lower() on one character of the alphabet used here
LowerChar(c) ==
    CASE c = "L" -> "l"
      [] c = "O" -> "o"
      [] c = "G" -> "g"
      [] OTHER -> c

\* str.lower()
Lower(s) == [k \in 1..Len(s) |-> LowerChar(s[k])]

\* the `in` operator on strings: sub occurs in s as a contiguous substring
Contains(sub, s) ==
    \E k \in 0..(Len(s) - Len(sub)) : SubSeq(s, k + 1, k + Len(sub)) = sub

IsSpace(c) == c = " "

RECURSIVE LStrip(_)
LStrip(s) == IF s # <<>> /\ IsSpace(Head(s)) THEN LStrip(Tail(s)) ELSE s

RECURSIVE RStrip(_)
RStrip(s) == IF s # <<>> /\ IsSpace(s[Len(s)])
             THEN RStrip(SubSeq(s, 1, Len(s) - 1)) ELSE s

\* mutant: the keyword is not trimmed
Strip_None(s) == s

\* str.strip()
Strip(s) == RStrip(LStrip(s))

\* str.rfind(c) + 1: the 1-based position of the last c in s, 0 when absent
RFind(s, c) ==
    IF \E k \in 1..Len(s) : s[k] = c
    THEN CHOOSE k \in 1..Len(s) : s[k] = c /\ \A m \in (k + 1)..Len(s) : s[m] # c
    ELSE 0

\* Position at which PurePath.suffix splits a name, 0 when the suffix is empty.
\* Before Python 3.14: the last dot, unless it is the first or last character.
SplitOld(name) ==
    LET d == RFind(name, ".")
    IN IF 1 < d /\ d < Len(name) THEN d ELSE 0

\* Python 3.14 (posixpath.splitext): the last dot, unless only dots precede it.
SplitNew(name) ==
    LET d == RFind(name, ".")
    IN IF d > 0 /\ \E k \in 1..(d - 1) : name[k] # "." THEN d ELSE 0

\* mutant: the suffix starts at the last dot wherever it is
SplitAt_LastDot(name) == RFind(name, ".")

SplitAt(name) == IF pathlib314 THEN SplitNew(name) ELSE SplitOld(name)

\* candidate.suffix
Suffix(name) ==
    IF SplitAt(name) = 0 THEN <<>> ELSE SubSeq(name, SplitAt(name), Len(name))

\* candidate.stem
Stem(name) ==
    IF SplitAt(name) = 0 THEN name ELSE SubSeq(name, 1, SplitAt(name) - 1)

----------------------------------------------------------------------------
(* Paths *)

\* a value that is no path: one component holding a separator
NoPath == << <<"/">> >>

DotDot == <<".", ".">>

Parent(p) == IF p = <<>> THEN <<>> ELSE SubSeq(p, 1, Len(p) - 1)

\* path.name
BaseName(p) == p[Len(p)]

RECURSIVE SplitSep(_, _)
\* str.split("/"), the component being read carried in cur
SplitSep(s, cur) ==
    IF s = <<>> THEN <<cur>>
    ELSE IF Head(s) = "/" THEN <<cur>> \o SplitSep(Tail(s), <<>>)
    ELSE SplitSep(Tail(s), Append(cur, Head(s)))

\* the components pathlib keeps of a string: empty and "." components are dropped
Parts(s) == SelectSeq(SplitSep(s, <<>>), LAMBDA c : c # <<>> /\ c # <<".">>)

\* base / s for a pathlib path and a string: an absolute s replaces base
JoinPath(base, s) ==
    IF s # <<>> /\ Head(s) = "/" THEN Parts(s) ELSE base \o Parts(s)

RECURSIVE Resolve(_, _)
\* Path.resolve() of an absolute path when there are no symbolic links:
\* ".." removes the component before it (the root is its own parent)
Resolve(done, rest) ==
    IF rest = <<>> THEN done
    ELSE IF Head(rest) = DotDot THEN Resolve(Parent(done), Tail(rest))
    ELSE Resolve(Append(done, Head(rest)), Tail(rest))

\* path.relative_to(other) does not raise: other is a lexical prefix of path
IsRelativeTo(p, other) ==
    Len(other) <= Len(p) /\ SubSeq(p, 1, Len(other)) = other

----------------------------------------------------------------------------
(* File system *)

RECURSIVE Lookup(_, _)
\* the kernel's path walk: the location a path names, NoPath when a component
\* that must be a directory is not one
Lookup(cur, rest) ==
    IF rest = <<>> THEN cur
    ELSE IF cur \notin dirs THEN NoPath
    ELSE IF Head(rest) = DotDot THEN Lookup(Parent(cur), Tail(rest))
    ELSE Lookup(Append(cur, Head(rest)), Tail(rest))

Phys(p) == Lookup(<<>>, p)

\* path.exists()
Exists(p) == Phys(p) \in dirs \/ Phys(p) \in DOMAIN files

\* path.is_dir()
IsDir(p) == Phys(p) \in dirs

\* Path.mkdir(exist_ok=True) raises: os.mkdir fails (the path exists, or its
\* parent is not a directory) and the path is not an existing directory
MkdirRaises(p) ==
    /\ ~IsDir(p)
    /\ Exists(p) \/ p = <<>> \/ ~IsDir(Parent(p))

\* the directories after a Path.mkdir(exist_ok=True) that does not raise
MkdirDirs(p) ==
    IF IsDir(p) THEN dirs ELSE dirs \cup {Append(Phys(Parent(p)), BaseName(p))}

\* shutil.move(src, dest) for a dest at which nothing exists: os.rename
Rename(src, dest) ==
    LET to == Append(Phys(Parent(dest)), BaseName(dest))
    IN [p \in (DOMAIN files \ {Phys(src)}) \cup {to} |->
            IF p = to THEN files[Phys(src)] ELSE files[p]]

----------------------------------------------------------------------------
(* iter_matching_files *)

\* the injective sequences over a finite set
Perms(S) ==
    {q \in [1..Cardinality(S) -> S] : \A a, b \in 1..Cardinality(S) : q[a] = q[b] => a = b}

Children(ds, d) == {c \in ds : c # <<>> /\ Parent(c) = d}

RECURSIVE WalkOrders(_, _)
RECURSIVE ForestOrders(_, _)
\* os.walk(top): the orders in which a top-down walk can visit the directories
\* under d; the order of the entries of one directory is the file system's
WalkOrders(ds, d) == {<<d>> \o r : r \in ForestOrders(ds, Children(ds, d))}

ForestOrders(ds, siblings) ==
    IF siblings = {} THEN {<<>>}
    ELSE UNION {{a \o b : a \in WalkOrders(ds, d), b \in ForestOrders(ds, siblings \ {d})} :
                d \in siblings}

\* mutant: the name is compared without lower()
Yielded_CaseSensitive(current_dir, kw, exclude) ==
    IF IsRelativeTo(current_dir, exclude) THEN {}
    ELSE {p \in DOMAIN files :
            /\ p # <<>>
            /\ Parent(p) = current_dir
            /\ Contains(Lower(kw), BaseName(p))}

\* mutant: the excluded directory is walked like any other
Yielded_NoExclude(current_dir, kw, exclude) ==
    {p \in DOMAIN files :
        /\ p # <<>>
        /\ Parent(p) = current_dir
        /\ Contains(Lower(kw), Lower(BaseName(p)))}

\* the files of directory current_dir that the loop body yields
Yielded(current_dir, kw, exclude) ==
    IF IsRelativeTo(current_dir, exclude) THEN {}
    ELSE {p \in DOMAIN files :
            /\ p # <<>>
            /\ Parent(p) = current_dir
            /\ Contains(Lower(kw), Lower(BaseName(p)))}

RECURSIVE YieldOrders(_, _, _)
YieldOrders(order, kw, exclude) ==
    IF order = <<>> THEN {<<>>}
    ELSE {a \o b : a \in Perms(Yielded(Head(order), kw, exclude)),
                   b \in YieldOrders(Tail(order), kw, exclude)}

\* list(iter_matching_files(base, kw, exclude)) over the directories ds:
\* the set of sequences the generator can produce
iter_matching_files(ds, base, kw, exclude) ==
    UNION {YieldOrders(order, kw, exclude) : order \in WalkOrders(ds, base)}

----------------------------------------------------------------------------
(* unique_destination *)

\* mutant: the first numbered candidate is returned without the existence test
Probe_NoCheck(dest, stem, suffix, counter) ==
    JoinPath(dest, stem \o <<"_">> \o Str(counter) \o suffix)

RECURSIVE Probe(_, _, _, _)
\* the while loop: the first numbered candidate at which nothing exists
Probe(dest, stem, suffix, counter) ==
    LET numbered == JoinPath(dest, stem \o <<"_">> \o Str(counter) \o suffix)
    IN IF ~Exists(numbered) THEN numbered
       ELSE Probe(dest, stem, suffix, counter + 1)

\* mutant: the plain candidate is returned even when it exists
unique_destination_Overwrite(dest, name) == JoinPath(dest, name)

unique_destination(dest, name) ==
    LET candidate == JoinPath(dest, name)
    IN IF ~Exists(candidate) THEN candidate
       ELSE Probe(dest, Stem(BaseName(candidate)), Suffix(BaseName(candidate)), 1)

----------------------------------------------------------------------------
(* main *)

\* args.target.expanduser().resolve()
ResolvedTarget == Resolve(<<>>, target)

\* not base_dir.exists() or not base_dir.is_dir()
BadTarget == ~Exists(ResolvedTarget) \/ ~IsDir(ResolvedTarget)

\* args.keyword.strip()
Keyword == Strip(keyword)

\* base_dir / keyword
DestDir == JoinPath(ResolvedTarget, Keyword)

\* the possible values of list(iter_matching_files(base_dir, keyword, dest_dir))
\* once dest_dir.mkdir has run
Matches == iter_matching_files(MkdirDirs(DestDir), ResolvedTarget, Keyword, DestDir)

\* the process starts: argv is parsed and the run's history is reset
Enter(dry) ==
    /\ pc \in {"idle", "done"}
    /\ runs < MaxRuns
    /\ runs' = runs + 1
    /\ dry_run' = dry
    /\ prev' = [status |-> status, dry_run |-> dry_run]
    /\ files0' = files
    /\ dirs0' = dirs
    /\ base_dir' = ResolvedTarget
    /\ idx' = 1
    /\ moves' = <<>>
    /\ UNCHANGED <<target, keyword, pathlib314>>

\* main, lines 102-103: SystemExit, the target is not a directory
MainBadTarget ==
    \E dry \in BOOLEAN :
        /\ Enter(dry)
        /\ BadTarget
        /\ pc' = "done"
        /\ status' = "bad_target"
        /\ dest_dir' = NoPath
        /\ matches' = <<>>
        /\ UNCHANGED <<files, dirs>>

\* main, lines 105-107: SystemExit, the keyword is empty after strip()
MainEmptyKeyword ==
    \E dry \in BOOLEAN :
        /\ Enter(dry)
        /\ ~BadTarget
        /\ Keyword = <<>>
        /\ pc' = "done"
        /\ status' = "empty_keyword"
        /\ dest_dir' = NoPath
        /\ matches' = <<>>
        /\ UNCHANGED <<files, dirs>>

\* main, lines 109-110: dest_dir.mkdir raises, the traceback ends the process
MainMkdirError ==
    \E dry \in BOOLEAN :
        /\ Enter(dry)
        /\ ~BadTarget
        /\ Keyword # <<>>
        /\ MkdirRaises(DestDir)
        /\ pc' = "done"
        /\ status' = "mkdir_error"
        /\ dest_dir' = DestDir
        /\ matches' = <<>>
        /\ UNCHANGED <<files, dirs>>

\* main, lines 109-116: no match, the "No files" message, return
MainNoMatches ==
    \E dry \in BOOLEAN :
        /\ Enter(dry)
        /\ ~BadTarget
        /\ Keyword # <<>>
        /\ ~MkdirRaises(DestDir)
        /\ <<>> \in Matches
        /\ pc' = "done"
        /\ status' = "no_matches"
        /\ dest_dir' = DestDir
        /\ dirs' = MkdirDirs(DestDir)
        /\ matches' = <<>>
        /\ UNCHANGED files

\* mutant: the --dry-run flag is not tested and move_files is called
MainDryRun_Moves ==
    /\ Enter(TRUE)
    /\ ~BadTarget
    /\ Keyword # <<>>
    /\ ~MkdirRaises(DestDir)
    /\ \E m \in Matches :
        /\ m # <<>>
        /\ pc' = "moving"
        /\ status' = "none"
        /\ dest_dir' = DestDir
        /\ dirs' = MkdirDirs(DestDir)
        /\ matches' = m
        /\ UNCHANGED files

\* main, lines 109-122: --dry-run, the matches are printed, return
MainDryRun ==
    /\ Enter(TRUE)
    /\ ~BadTarget
    /\ Keyword # <<>>
    /\ ~MkdirRaises(DestDir)
    /\ \E m \in Matches :
        /\ m # <<>>
        /\ pc' = "done"
        /\ status' = "dry_run"
        /\ dest_dir' = DestDir
        /\ dirs' = MkdirDirs(DestDir)
        /\ matches' = m
        /\ UNCHANGED files

\* main, lines 109-124: the call of move_files(matches, dest_dir)
MainCallMove ==
    /\ Enter(FALSE)
    /\ ~BadTarget
    /\ Keyword # <<>>
    /\ ~MkdirRaises(DestDir)
    /\ \E m \in Matches :
        /\ m # <<>>
        /\ pc' = "moving"
        /\ status' = "none"
        /\ dest_dir' = DestDir
        /\ dirs' = MkdirDirs(DestDir)
        /\ matches' = m
        /\ UNCHANGED files

\* move_files, lines 72-75: one iteration of the loop, the move succeeds
MoveNext ==
    /\ pc = "moving"
    /\ idx <= Len(matches)
    /\ LET src == matches[idx]
           dest == unique_destination(dest_dir, BaseName(src))
       IN /\ files' = Rename(src, dest)
          /\ moves' = Append(moves, <<src, dest>>)
    /\ idx' = idx + 1
    /\ UNCHANGED <<dirs, target, keyword, dry_run, pathlib314, pc, status,
                   base_dir, dest_dir, matches, files0, dirs0, runs, prev>>

\* mutant: the exception is caught and the loop goes on to the next match
MoveRaise_Swallow ==
    /\ pc = "moving"
    /\ idx <= Len(matches)
    /\ idx' = idx + 1
    /\ UNCHANGED <<files, dirs, target, keyword, dry_run, pathlib314, pc, status,
                   base_dir, dest_dir, matches, moves, files0, dirs0, runs, prev>>

\* move_files, line 74: shutil.move raises (permission denied, disk full, ...)
\* before it has changed the file system; nothing catches the exception and
\* the traceback ends the process
MoveRaise ==
    /\ pc = "moving"
    /\ idx <= Len(matches)
    /\ pc' = "done"
    /\ status' = "move_error"
    /\ UNCHANGED <<files, dirs, target, keyword, dry_run, pathlib314,
                   base_dir, dest_dir, matches, idx, moves, files0, dirs0, runs, prev>>

\* move_files, line 76, and main, lines 125-127: the summary is printed
MainReport ==
    /\ pc = "moving"
    /\ idx > Len(matches)
    /\ pc' = "done"
    /\ status' = "moved"
    /\ UNCHANGED <<files, dirs, target, keyword, dry_run, pathlib314,
                   base_dir, dest_dir, matches, idx, moves, files0, dirs0, runs, prev>>

\* the exit status of the process
ExitCode == IF status \in {"no_matches", "dry_run", "moved"} THEN 0 ELSE 1

----------------------------------------------------------------------------
(* The file systems and command lines explored *)

nT == <<"t">>
nS == <<"s">>
nN == <<"n">>
nLog == <<"l", "o", "g">>
nLOG == <<"L", "O", "G">>
nLogT == <<"l", "o", "g", ".", "t">>
nADotDotB == <<"a", ".", ".", "b">>

T == <<nT>>
TS == <<nT, nS>>
TLog == <<nT, nLog>>
TLogS == <<nT, nLog, nS>>

\* the directories beside the root and t: s, log (a destination left by an
\* earlier run) and log/s
DirConfigs ==
    {{<<>>, T} \cup x : x \in {{}, {TS}, {TLog}, {TS, TLog}, {TLog, TLogS}, {TS, TLog, TLogS}}}

\* where the initial file system may hold a regular file: the content of a
\* file is the path it has here
FilePositions ==
    {Append(T, nLogT), Append(T, nLOG), Append(T, nN), Append(T, nADotDotB),
     Append(TS, nLogT), Append(TS, nADotDotB),
     Append(TLog, nLogT),
     Append(TLogS, nLogT)}

FileSets(ds) ==
    {fs \in SUBSET {p \in FilePositions : Parent(p) \in ds} : Cardinality(fs) <= MaxFiles}

\* the target as typed: t/s/.. (which resolves to t) and t/n (a file or nothing)
Targets == {<<nT, nS, DotDot>>, <<nT, nN>>}

\* the keyword as typed: log, " LOG ", " ", ".", ".." and s/g
Keywords ==
    {nLog, <<" ", "L", "O", "G", " ">>, <<" ">>, <<".">>, DotDot, <<"s", "/", "g">>}

Init ==
    /\ \E ds \in DirConfigs : \E fs \in FileSets(ds) :
        /\ dirs = ds
        /\ files = [p \in fs |-> p]
    /\ target \in Targets
    /\ keyword \in Keywords
    /\ pathlib314 \in BOOLEAN
    /\ dry_run = FALSE
    /\ pc = "idle"
    /\ status = "none"
    /\ base_dir = <<>>
    /\ dest_dir = NoPath
    /\ matches = <<>>
    /\ idx = 1
    /\ moves = <<>>
    /\ files0 = files
    /\ dirs0 = dirs
    /\ runs = 0
    /\ prev = [status |-> "none", dry_run |-> FALSE]

Next ==
    \/ MainBadTarget
    \/ MainEmptyKeyword
    \/ MainMkdirError
    \/ MainNoMatches
    \/ MainDryRun
    \/ MainCallMove
    \/ MoveNext
    \/ MoveRaise
    \/ MainReport

Spec == Init /\ [][Next]_vars

----------------------------------------------------------------------------
(* move_files called on its own: any destination directory contents, any     *)
(* list of existing source files                                             *)

nReportTxt == <<"r", "e", "p", "o", "r", "t", ".", "t", "x", "t">>
nReport1Txt == <<"r", "e", "p", "o", "r", "t", "_", "1", ".", "t", "x", "t">>
nReport2Txt == <<"r", "e", "p", "o", "r", "t", "_", "2", ".", "t", "x", "t">>
nDotLog == <<".", "l", "o", "g">>
nLogDot == <<"l", "o", "g", ".">>
nDotDotTxt == <<".", ".", "t", "x", "t">>
nABC == <<"a", ".", "b", ".", "c">>

D == << <<"d">> >>
SrcA == << <<"a">> >>
SrcB == << <<"b">> >>

MoveNames == {nReportTxt, nDotLog, nLogDot, nDotDotTxt, nABC, nLog}

Sources == {Append(d, n) : d \in {SrcA, SrcB}, n \in MoveNames}

EntrySets ==
    {e \in SUBSET {Append(D, n) : n \in MoveNames \cup {nReport1Txt}} : Cardinality(e) <= MaxEntries}

PathLists ==
    UNION {{q \in [1..n -> Sources] : \A a, b \in 1..n : q[a] = q[b] => a = b} : n \in 1..MaxPaths}

InitMove ==
    /\ dirs = {<<>>, D, SrcA, SrcB}
    /\ \E e \in EntrySets : \E q \in PathLists :
        /\ files = [p \in e \cup {q[k] : k \in 1..Len(q)} |-> p]
        /\ matches = q
    /\ pathlib314 \in BOOLEAN
    /\ target = <<>>
    /\ keyword = <<>>
    /\ dry_run = FALSE
    /\ pc = "moving"
    /\ status = "none"
    /\ base_dir = <<>>
    /\ dest_dir = D
    /\ idx = 1
    /\ moves = <<>>
    /\ files0 = files
    /\ dirs0 = dirs
    /\ runs = 1
    /\ prev = [status |-> "none", dry_run |-> FALSE]

NextMove ==
    \/ MoveNext
    \/ MoveRaise
    \/ MainReport

SpecMove == InitMove /\ [][NextMove]_vars

----------------------------------------------------------------------------
(* Properties *)

\* C1: after a run without --dry-run that completes, every file that was under
\* the target, not under target/keyword, and whose base name contains the
\* trimmed keyword case-insensitively is gone from its original path and a
\* file with its contents lies directly inside target/keyword; every file whose
\* name does not contain the keyword is where it was, with its contents.
C1_MatchesMoved ==
    (pc = "done" /\ ~dry_run /\ status \in {"moved", "no_matches"}) =>
        \A f \in DOMAIN files0 :
            IF Contains(Lower(Strip(keyword)), Lower(BaseName(f)))
            THEN (IsRelativeTo(f, base_dir) /\ ~IsRelativeTo(f, dest_dir)) =>
                    /\ f \notin DOMAIN files
                    /\ \E p \in DOMAIN files :
                        /\ Parent(p) = Phys(dest_dir)
                        /\ files[p] = files0[f]
            ELSE f \in DOMAIN files /\ files[f] = files0[f]

\* a completed run that moved t/LOG and t/s/log.t for keyword "log" and left t/n
C1_Witness ==
    /\ pc = "done" /\ status = "moved" /\ keyword = nLog
    /\ Append(T, nLOG) \in DOMAIN files0 /\ Append(T, nLOG) \notin DOMAIN files
    /\ Append(TS, nLogT) \in DOMAIN files0 /\ Append(TS, nLogT) \notin DOMAIN files
    /\ Append(T, nN) \in DOMAIN files

\* C2: each call of unique_destination made by move_files returns dest_dir/name
\* when nothing exists there, and otherwise dest_dir/{stem}_{k}{suffix} for the
\* smallest k >= 1 at which nothing exists; report.txt colliding with report.txt
\* becomes report_1.txt, and report_2.txt when that exists too; the move leaves
\* every file already in the destination directory as it was.
C2_SmallestFreeName ==
    [][(pc = "moving" /\ idx' = idx + 1) =>
        LET name == BaseName(matches[idx])
            dest == moves'[idx][2]
            present == DOMAIN files \cup dirs
            numbered(k) == Append(dest_dir, Stem(name) \o <<"_">> \o Str(k) \o Suffix(name))
        IN /\ Append(dest_dir, name) \notin present => dest = Append(dest_dir, name)
           /\ Append(dest_dir, name) \in present =>
                \E k \in 1..(Cardinality(present) + 1) :
                    /\ dest = numbered(k)
                    /\ dest \notin present
                    /\ \A j \in 1..(k - 1) : numbered(j) \in present
           /\ (/\ name = nReportTxt
               /\ Append(dest_dir, nReportTxt) \in present
               /\ Append(dest_dir, nReport1Txt) \notin present) =>
                dest = Append(dest_dir, nReport1Txt)
           /\ (/\ name = nReportTxt
               /\ Append(dest_dir, nReportTxt) \in present
               /\ Append(dest_dir, nReport1Txt) \in present
               /\ Append(dest_dir, nReport2Txt) \notin present) =>
                dest = Append(dest_dir, nReport2Txt)
           /\ \A p \in DOMAIN files :
                Parent(p) = dest_dir => p \in DOMAIN files' /\ files'[p] = files[p]
      ]_vars

\* report.txt was in the destination; two more report.txt became _1 and _2
C2_Witness ==
    /\ Len(moves) = 2
    /\ BaseName(moves[1][1]) = nReportTxt /\ moves[1][2] = Append(D, nReport1Txt)
    /\ BaseName(moves[2][1]) = nReportTxt
    /\ moves[2][2] = Append(D, nReport2Txt)
    /\ Append(D, nReportTxt) \in DOMAIN files
    /\ files[Append(D, nReportTxt)] = Append(D, nReportTxt)

\* C3: no file located inside target/keyword, at any depth, is emitted by
\* iter_matching_files or moved by a run: no match lies in or below the
\* directory that target/keyword names, and every file that was there when the
\* run started is still there with its contents.
C3_ExcludedNeverEmitted ==
    /\ \A j \in 1..Len(matches) : ~IsRelativeTo(matches[j], Phys(dest_dir))
    /\ \A f \in DOMAIN files0 :
        IsRelativeTo(f, Phys(dest_dir)) => f \in DOMAIN files /\ files[f] = files0[f]

\* C4: a run with --dry-run changes no file; the only change to the file system
\* it can make is the creation of the directory target/keyword.
C4_DryRunPure ==
    dry_run =>
        /\ pc = "done"
        /\ files = files0
        /\ moves = <<>>
        /\ dirs = dirs0 \/ (Phys(dest_dir) \notin dirs0 /\ dirs = dirs0 \cup {Phys(dest_dir)})

\* a dry run that listed two matches and created the destination directory
C4_Witness ==
    /\ dry_run /\ status = "dry_run" /\ Len(matches) = 2
    /\ dest_dir = TLog /\ TLog \notin dirs0 /\ TLog \in dirs

\* C5: when the target is not an existing directory, or the keyword is empty
\* after trimming, main exits with a non-zero status and a message and nothing
\* has been done: no directory created, no walk, no file moved.
C5_UsageErrorNoWork ==
    (/\ runs >= 1
     /\ \/ Resolve(<<>>, target) \notin dirs0
        \/ \A k \in 1..Len(keyword) : keyword[k] = " ") =>
        /\ pc = "done"
        /\ status \in {"bad_target", "empty_keyword"}
        /\ ExitCode # 0
        /\ files = files0
        /\ dirs = dirs0
        /\ dest_dir = NoPath
        /\ matches = <<>>
        /\ moves = <<>>

\* a blank keyword rejected in a tree that holds files the walk would visit
C5_Witness ==
    /\ status = "empty_keyword" /\ keyword = <<" ">>
    /\ Append(T, nLogT) \in DOMAIN files

\* C6: for every keyword that passes validation, the destination directory is
\* a direct child of the resolved search root, named exactly as the keyword,
\* and is not the root itself.
C6_DestIsDirectChild ==
    dest_dir # NoPath =>
        /\ Parent(dest_dir) = base_dir
        /\ Len(dest_dir) = Len(base_dir) + 1
        /\ BaseName(dest_dir) = Strip(keyword)
        /\ Phys(dest_dir) # base_dir
        /\ Phys(dest_dir) = dest_dir

\* C7 as stated: a second run with the same target and keyword finds zero
\* matches and leaves the file system as the first run left it.
C7_SecondRunNoop ==
    runs >= 2 =>
        /\ matches = <<>>
        /\ files = files0
        /\ dirs = dirs0

\* C7 amended: after a run that completed and left no match unmoved (no dry-run
\* listing, no error), the next run with the same target and keyword does not
\* fail, finds zero matches and changes nothing.
C7_RerunAfterCompletedMove ==
    (runs >= 2 /\ prev.status \in {"moved", "no_matches"}) =>
        /\ pc = "done"
        /\ status = "no_matches"
        /\ ExitCode = 0
        /\ matches = <<>>
        /\ files = files0
        /\ dirs = dirs0

\* a second run after a run that moved files into t/log
C7_Witness ==
    /\ runs = 2 /\ pc = "done" /\ prev.status = "moved" /\ dest_dir = TLog
    /\ \E p \in DOMAIN files : Parent(p) = TLog /\ files[p] # p

\* C8 as stated: when the plain candidate collides, the numbered name is built
\* from the split of the name at its last dot, for every name.
C8_SplitAtLastDot ==
    \A j \in 1..Len(moves) :
        LET name == BaseName(moves[j][1])
            got == BaseName(moves[j][2])
            d == RFind(name, ".")
            stem == IF d = 0 THEN name ELSE SubSeq(name, 1, d - 1)
            ext == IF d = 0 THEN <<>> ELSE SubSeq(name, d, Len(name))
        IN got # name =>
            \E k \in 1..(Cardinality(DOMAIN files) + 1) : got = stem \o <<"_">> \o Str(k) \o ext

\* C8 amended: the split is at the last dot when that dot is neither the first
\* nor the last character and a character other than a dot precedes it; a name
\* with no dot, or whose last dot is its first character, is all stem; for the
\* remaining names (ending with a dot, or with only dots before the last dot)
\* it is one of the two; the numbered name is stem, "_", k, extension.
C8_SplitAsPathlib ==
    \A j \in 1..Len(moves) :
        LET name == BaseName(moves[j][1])
            got == BaseName(moves[j][2])
            d == RFind(name, ".")
            split(k) == got = SubSeq(name, 1, d - 1) \o <<"_">> \o Str(k) \o SubSeq(name, d, Len(name))
            whole(k) == got = name \o <<"_">> \o Str(k)
        IN got # name =>
            \E k \in 1..(Cardinality(DOMAIN files) + 1) :
                IF d = 0 \/ d = 1 THEN whole(k)
                ELSE IF d < Len(name) /\ \E m \in 1..(d - 1) : name[m] # "." THEN split(k)
                ELSE split(k) \/ whole(k)

\* a colliding .log became .log_1 and a colliding a.b.c became a.b_1.c
C8_Witness ==
    /\ Len(moves) = 2
    /\ \E j \in 1..2 :
        /\ BaseName(moves[j][1]) = nDotLog
        /\ BaseName(moves[j][2]) = <<".", "l", "o", "g", "_", "1">>
    /\ \E j \in 1..2 :
        /\ BaseName(moves[j][1]) = nABC
        /\ BaseName(moves[j][2]) = <<"a", ".", "b", "_", "1", ".", "c">>

\* C9: when the move of match i raises, the run ends there with a failure: the
\* matches before i are at their destinations and gone from their sources,
\* match i and the later ones are at their original paths, the result holds
\* the moves made, and the summary is printed only when every match was moved.
C9_AbortKeepsPrefix ==
    /\ status = "move_error" =>
        /\ pc = "done"
        /\ ExitCode # 0
        /\ idx <= Len(matches)
        /\ Len(moves) = idx - 1
        /\ \A j \in 1..Len(matches) :
            IF j < idx
            THEN /\ matches[j] \notin DOMAIN files
                 /\ Phys(moves[j][2]) \in DOMAIN files
                 /\ files[Phys(moves[j][2])] = files0[matches[j]]
            ELSE /\ matches[j] \in DOMAIN files
                 /\ files[matches[j]] = files0[matches[j]]
    /\ status = "moved" =>
        /\ Len(moves) = Len(matches)
        /\ \A j \in 1..Len(matches) : matches[j] \notin DOMAIN files

\* the second of three moves raised
C9_Witness ==
    status = "move_error" /\ idx = 2 /\ Len(matches) = 3

\* C10: move_files gives every match a destination directly inside the
\* destination directory at which nothing existed before the run and which no
\* earlier match of the run received; the entries of the destination directory
\* grow by one per move, the entries it had keep their contents, no content is
\* lost, and the result pairs each match with its destination in order.
C10_NoOverwrite ==
    LET dd == Phys(dest_dir)
        entries(fs, ds) == {p \in DOMAIN fs \cup ds : p # <<>> /\ Parent(p) = dd}
    IN /\ Len(moves) <= Len(matches)
       /\ status = "moved" => Len(moves) = Len(matches)
       /\ \A j \in 1..Len(moves) :
            /\ moves[j][1] = matches[j]
            /\ Parent(Phys(moves[j][2])) = dd
            /\ Phys(moves[j][2]) \notin DOMAIN files0 \cup dirs0
            /\ \A k \in 1..(j - 1) : Phys(moves[k][2]) # Phys(moves[j][2])
            /\ Phys(moves[j][2]) \in DOMAIN files
            /\ files[Phys(moves[j][2])] = files0[matches[j]]
       /\ Cardinality(entries(files, dirs)) = Cardinality(entries(files0, dirs0)) + Len(moves)
       /\ \A p \in DOMAIN files0 : Parent(p) = dd => p \in DOMAIN files /\ files[p] = files0[p]
       /\ {files[p] : p \in DOMAIN files} = {files0[p] : p \in DOMAIN files0}
       /\ Cardinality(DOMAIN files) = Cardinality(DOMAIN files0)

\* t/log held log.t; log.t from t and from t/s arrived as log_1.t and log_2.t
C10_Witness ==
    /\ status = "moved" /\ dest_dir = TLog /\ Len(moves) = 2
    /\ Append(TLog, nLogT) \in DOMAIN files0
    /\ BaseName(moves[1][1]) = nLogT /\ BaseName(moves[2][1]) = nLogT
    /\ moves[1][2] = Append(TLog, <<"l", "o", "g", "_", "1", ".", "t">>)
    /\ moves[2][2] = Append(TLog, <<"l", "o", "g", "_", "2", ".", "t">>)

====
